---- MODULE Spec2Model ----
(***************************************************************************)
(* Complete tree exploration for multi-player bandits                      *)
(* (complete_tree_exploration_for_MP_bandits.py).                          *)
(*                                                                         *)
(* The driver main() builds a root State from its arguments, explores the  *)
(* tree of all transitions to a given depth and collects the unique leafs. *)
(* Matrices are functions player -> arm -> count with the source's 0-based *)
(* indices; Python lists and tuples are sequences; a Fraction is a reduced *)
(* pair <<numerator, denominator>>.  A State object is a record whose      *)
(* children field holds the child records (the object graph is a tree: no  *)
(* State object is ever referenced from two places).                       *)
(***************************************************************************)
EXTENDS Integers, Sequences, FiniteSets, TLC

VARIABLES args, pc, root, result, absorbing, order, earlier

\* The objects of the interpreter (heap), the repetitions of delayed_play
\* (procs), the pending calls of explore_from_node_to_depth (stack), the
\* frame of a generator all_deltas (frame) and the locals of its caller.
VARIABLES heap, procs, stack, frame, caller

\* What a run of main alone never touches.
aside == <<heap, procs, stack, frame, caller>>

vars == <<args, pc, root, result, absorbing, order, earlier, aside>>

\* Largest exploration depth the model hands to main.
MaxDepth == 2

\* Largest number of rows, of columns and of list entries handed to the
\* constructor of State.
MaxDim == 2

\* main: assert 0 <= depth <= 5
DepthLimit == 5

\* main: assert 1 <= M <= K <= 10
ArmLimit == 10

----------------------------------------------------------------------------
(* fractions.Fraction: exact rational arithmetic, always reduced *)

RECURSIVE GCD(_, _)
GCD(a, b) == IF b = 0 THEN a ELSE GCD(b, a % b)

Frac(n, d) == LET g == GCD(n, d) IN <<n \div g, d \div g>>

FracMul(x, y) == Frac(x[1] * y[1], x[2] * y[2])

FracAdd(x, y) ==
    LET g == GCD(x[2], y[2])
        l == (x[2] \div g) * y[2]
    IN  Frac(x[1] * (l \div x[2]) + y[1] * (l \div y[2]), l)

FracDivInt(x, n) == Frac(x[1], x[2] * n)

FracOneMinus(x) == Frac(x[2] - x[1], x[2])

One == <<1, 1>>

Zero == <<0, 1>>

\* sum of the Fractions s[lo..hi], and of the whole list
RECURSIVE FracSumRange(_, _, _)
FracSumRange(s, lo, hi) ==
    IF lo > hi THEN Zero
    ELSE IF lo = hi THEN s[lo]
    ELSE LET mid == (lo + hi) \div 2
         IN  FracAdd(FracSumRange(s, lo, mid), FracSumRange(s, mid + 1, hi))

FracSum(s) == FracSumRange(s, 1, Len(s))

----------------------------------------------------------------------------
(* small helpers *)

Min2(a, b) == IF a <= b THEN a ELSE b

Max2(a, b) == IF a >= b THEN a ELSE b

\* prod(iterator), line 36, on a sequence of Fractions
RECURSIVE prod(_)
prod(s) == IF s = <<>> THEN One ELSE FracMul(Head(s), prod(Tail(s)))

\* A variant that returns the last factor only.
lastFactor(s) == IF s = <<>> THEN 1 ELSE s[Len(s)]

\* prod(iterator), line 36, on a sequence of integers
RECURSIVE prodInt(_)
prodInt(s) == IF s = <<>> THEN 1 ELSE Head(s) * prodInt(Tail(s))

\* The elements of a finite set of integers in increasing order.
RECURSIVE Ascending(_)
Ascending(S) ==
    IF S = {} THEN <<>>
    ELSE LET m == CHOOSE x \in S : \A y \in S : x <= y
         IN  <<m>> \o Ascending(S \ {m})

\* np.shape of a 2D array.
Rows(A) == Cardinality(DOMAIN A)

Cols(A) == IF Rows(A) = 0 THEN 0 ELSE Cardinality(DOMAIN A[0])

Shape(A) == <<Rows(A), Cols(A)>>

\* np.zeros((M, K))
Zeros(M, K) == [j \in 0..(M - 1) |-> [k \in 0..(K - 1) |-> 0]]

RECURSIVE SumSeq(_)
SumSeq(s) == IF s = <<>> THEN 0 ELSE Head(s) + SumSeq(Tail(s))

\* np.sum of a 2D array.
NpSum(A) ==
    SumSeq([i \in 1..Rows(A) |->
              SumSeq([k \in 1..Cols(A) |-> A[i - 1][k - 1]])])

\* tupleit1 / tupleit2: a row as a tuple, a matrix as a tuple of row tuples.
tupleit1(row) == [k \in 1..Cardinality(DOMAIN row) |-> row[k - 1]]

tupleit2(A) == [i \in 1..Rows(A) |-> tupleit1(A[i - 1])]

----------------------------------------------------------------------------
(* Decision functions: (j, state) -> list of candidate arms *)

\* A variant of FixedArm where every player targets arm 0.
FirstArm(j, state) == <<0>>

FixedArm(j, state) == <<j>>

UniformExploration(j, state) == [i \in 1..state.K |-> i - 1]

\* An index value: +oo, or the quotient num / den of two counts.
Inf == [inf |-> TRUE, num |-> 0, den |-> 1]

Quot(num, den) == [inf |-> FALSE, num |-> num, den |-> den]

IndexLeq(a, b) == b.inf \/ (~a.inf /\ a.num * b.den <= b.num * a.den)

\* A variant that returns one position attaining the maximum, not all.
firstMaximum(indexes) ==
    <<CHOOSE k \in 0..(Len(indexes) - 1) :
        /\ \A l \in DOMAIN indexes : IndexLeq(indexes[l], indexes[k + 1])
        /\ \A m \in 0..(k - 1) : ~IndexLeq(indexes[k + 1], indexes[m + 1])>>

\* np.where(indexes == np.max(indexes))[0]; indexes[k + 1] is arm k's index.
choices_from_indexes(indexes) ==
    Ascending({k \in 0..(Len(indexes) - 1) :
                 \A l \in DOMAIN indexes : IndexLeq(indexes[l], indexes[k + 1])})

\* indexes = nums / dens, then indexes[state.N[j] < 1] = +oo.  A quotient of
\* two counts is kept exact; 0 / 0 (nan) only arises where N < 1 and is
\* always overwritten by +oo.
Forced(state, j, nums, dens) ==
    [i \in 1..state.K |->
        IF state.N[j][i - 1] < 1 THEN Inf ELSE Quot(nums[i], dens[i])]

Selfish_0Greedy_U(j, state) ==
    choices_from_indexes(
        Forced(state, j, tupleit1(state.S[j]), tupleit1(state.N[j])))

Selfish_0Greedy_Utilde(j, state) ==
    choices_from_indexes(
        Forced(state, j, tupleit1(state.Stilde[j]), tupleit1(state.N[j])))

\* (Ntilde / N) * (S / N), as the quotient (Ntilde * S) / (N * N)
Selfish_0Greedy_Ubar(j, state) ==
    choices_from_indexes(
        Forced(state, j,
               [i \in 1..state.K |-> state.Ntilde[j][i - 1] * state.S[j][i - 1]],
               [i \in 1..state.K |-> state.N[j][i - 1] * state.N[j][i - 1]]))

default_policy == "Selfish_0Greedy_Ubar"

\* Selfish_UCB_U starts with state[j].S: State defines no __getitem__, so the
\* call raises TypeError before anything else whatever j and state are.  No
\* other decision function of the model raises.
Raises(player, j, state) == player = "Selfish_UCB_U"

\* Calling the decision function named `player`, when the call returns.
Call(player, j, state) ==
    CASE player = "FixedArm" -> FixedArm(j, state)
      [] player = "UniformExploration" -> UniformExploration(j, state)
      [] player = "Selfish_0Greedy_U" -> Selfish_0Greedy_U(j, state)
      [] player = "Selfish_0Greedy_Utilde" -> Selfish_0Greedy_Utilde(j, state)
      [] player = "Selfish_0Greedy_Ubar" -> Selfish_0Greedy_Ubar(j, state)

----------------------------------------------------------------------------
(* class State *)

\* A variant of the assertions that does not look at mus.
initAssertsNoMus(S, Stilde, N, Ntilde, mus, players) ==
    /\ Shape(S) = Shape(Stilde)
    /\ Shape(Stilde) = Shape(N)
    /\ Shape(N) = Shape(Ntilde)
    /\ Len(players) = Min2(Rows(S), Cols(S))

\* The three assertions of State.__init__.
InitAsserts(S, Stilde, N, Ntilde, mus, players) ==
    /\ Shape(S) = Shape(Stilde)
    /\ Shape(Stilde) = Shape(N)
    /\ Shape(N) = Shape(Ntilde)
    /\ Len(players) = Min2(Rows(S), Cols(S))
    /\ Len(mus) = Max2(Rows(S), Cols(S))

\* State.__init__: the four arrays are copied, mus and players are shared.
State(S, Stilde, N, Ntilde, mus, players, depth) ==
    [S |-> S, Stilde |-> Stilde, N |-> N, Ntilde |-> Ntilde,
     mus |-> mus, players |-> players,
     depth |-> depth,
     t |-> NpSum(N),
     M |-> Min2(Rows(S), Cols(S)),
     K |-> Max2(Rows(S), Cols(S)),
     children |-> <<>>,
     probas |-> <<>>]

\* A variant of copy that resets the depth, as its docstring says.
copyDepthZero(self) ==
    State(self.S, self.Stilde, self.N, self.Ntilde, self.mus, self.players, 0)

\* State.copy
copy(self) ==
    State(self.S, self.Stilde, self.N, self.Ntilde, self.mus, self.players,
          self.depth)

\* A variant of the key that leaves out the sensing feedback S.
hashWithoutS(self) ==
    tupleit2(self.N) \o tupleit2(self.Stilde) \o tupleit2(self.Ntilde)
        \o <<self.t, self.depth>>

\* A variant that does not look at the values of the shared line.
anyLine(bad_line, K) == TRUE

\* len(set(bad_line)) == self.K
allDifferent(bad_line, K) ==
    Cardinality({bad_line[i] : i \in DOMAIN bad_line}) = K

\* np.min of a 2D array with at least one entry.
NpMin(A) ==
    CHOOSE v \in {A[j][k] : j \in 0..(Rows(A) - 1), k \in 0..(Cols(A) - 1)} :
        \A j \in 0..(Rows(A) - 1) : \A k \in 0..(Cols(A) - 1) : v <= A[j][k]

\* State.is_absorbing: it builds tuples of the rows and changes nothing.
is_absorbing(self) ==
    IF NpMin(self.N) < 1 THEN FALSE
    ELSE \E j1 \in 0..(self.M - 1) : \E j2 \in (j1 + 1)..(self.M - 1) :
            /\ tupleit1(self.S[j1]) = tupleit1(self.S[j2])
            /\ tupleit1(self.Stilde[j1]) = tupleit1(self.Stilde[j2])
            /\ tupleit1(self.N[j1]) = tupleit1(self.N[j2])
            /\ tupleit1(self.Ntilde[j1]) = tupleit1(self.Ntilde[j2])
            /\ allDifferent(tupleit1(self.S[j1]), self.K)

\* State.__hash__: the key that is hashed.  Python's hash() of this tuple is
\* taken to be collision free, so the tuple itself stands for its hash.
hash(self) ==
    tupleit2(self.S) \o tupleit2(self.N) \o tupleit2(self.Stilde)
        \o tupleit2(self.Ntilde) \o <<self.t, self.depth>>

----------------------------------------------------------------------------
(* State.all_deltas *)

\* itertools.product(*lists): the last list varies fastest.
RECURSIVE product(_)
product(lists) ==
    IF lists = <<>> THEN << <<>> >>
    ELSE LET rest == product(Tail(lists))
             first == Head(lists)
         IN  [n \in 1..(Len(first) * Len(rest)) |->
                <<first[((n - 1) \div Len(rest)) + 1]>>
                    \o rest[((n - 1) % Len(rest)) + 1]]

\* Counter(decisions).get(k, 0)
Count(decisions, k) == Cardinality({i \in DOMAIN decisions : decisions[i] = k})

\* A variant where a success is weighted 1 - mu and a failure mu.
coinProbaSwapped(b, mu) == IF b = 1 THEN FracOneMinus(mu) ELSE mu

\* mu if b else (1 - mu)
coinProba(b, mu) == IF b = 1 THEN mu ELSE FracOneMinus(mu)

\* A variant that counts no sensing trial.
trialStuck(n) == n

\* A variant that counts every sensing trial twice.
trialTwice(n) == n + 2

\* s.N[j, Ij] += 1
trial(n) == n + 1

\* The loop of the closure delta, rounds j..rounds-1, over
\* zip(range(self.M), decisions, coin_flips, collisions): round j takes the
\* j-th entry of each of the four.
RECURSIVE deltaLoop(_, _, _, _, _, _)
deltaLoop(s, decisions, coin_flips, collisions, j, rounds) ==
    IF j >= rounds THEN s
    ELSE LET Ij == decisions[j + 1]
             b == coin_flips[j + 1]
             c == collisions[j + 1]
             s1 == [s EXCEPT !.S[j][Ij] = @ + b,
                             !.N[j][Ij] = trial(@)]
             s2 == IF ~c
                   THEN [s1 EXCEPT !.Stilde[j][Ij] = @ + b,
                                   !.Ntilde[j][Ij] = @ + 1]
                   ELSE s1
         IN  deltaLoop(s2, decisions, coin_flips, collisions, j + 1, rounds)

\* A variant of delta that leaves N as it was.
deltaNoTrials(self, decisions, coin_flips, s) ==
    LET collisions == [i \in 1..self.K |-> Count(decisions, i - 1) >= 2]
    IN  [deltaLoop([s EXCEPT !.t = @ + 1, !.depth = @ - 1],
                   decisions, coin_flips, collisions, 0, self.M)
            EXCEPT !.N = s.N]

\* The closure delta of all_deltas applied to s: self, decisions and
\* coin_flips are the variables it closes over.
delta(self, decisions, coin_flips, s) ==
    LET collisions == [i \in 1..self.K |-> Count(decisions, i - 1) >= 2]
        rounds == Min2(Min2(self.M, Len(decisions)),
                       Min2(Len(coin_flips), Len(collisions)))
    IN  deltaLoop([s EXCEPT !.t = @ + 1, !.depth = @ - 1],
                  decisions, coin_flips, collisions, 0, rounds)

\* all_decisions = [ player(j, self) for j, player in enumerate(self.players) ]
all_decisions(self) ==
    [i \in 1..Len(self.players) |-> Call(self.players[i], i - 1, self)]

\* prod(mu if b else (1 - mu) for b, mu in zip(coin_flips, self.mus))
proba_of_this_coin_flip(coin_flips, mus) ==
    prod([k \in 1..Min2(Len(coin_flips), Len(mus)) |->
            coinProba(coin_flips[k], mus[k])])

\* The pairs (delta, proba) the generator yields for the decision lists
\* lists, in order; a delta is given by the decisions and the coin_flips it
\* closes over.
yields(self, lists) ==
    LET number_of_decisions == prodInt([i \in 1..Len(lists) |-> Len(lists[i])])
        profiles == product(lists)
        flips == product([k \in 1..self.K |-> <<0, 1>>])
    IN  [n \in 1..(Len(profiles) * Len(flips)) |->
           [decisions |-> profiles[((n - 1) \div Len(flips)) + 1],
            coin_flips |-> flips[((n - 1) % Len(flips)) + 1],
            proba |-> FracDivInt(
                proba_of_this_coin_flip(flips[((n - 1) % Len(flips)) + 1],
                                        self.mus),
                number_of_decisions)]]

all_deltas(self) == yields(self, all_decisions(self))

\* The list comprehension all_decisions raises: one of its calls does.
decisionsRaise(self) ==
    \E i \in DOMAIN self.players : Raises(self.players[i], i - 1, self)

----------------------------------------------------------------------------
(* State.compute_one_depth *)

\* A pair of dictionaries with the same keys, in insertion order: keys[i] is
\* the i-th key inserted, states[i] and probas[i] are its two values.
EmptyDicts == [keys |-> <<>>, states |-> <<>>, probas |-> <<>>]

\* A variant of the membership test that never finds the key.
inDictNever(h, dicts) == FALSE

\* h in uniq_children
inDict(h, dicts) == \E i \in DOMAIN dicts.keys : dicts.keys[i] = h

\* A variant that overwrites the stored probability.
mergeOverwrite(old, proba) == proba

\* uniq_probas[h] += proba
merge(old, proba) == FracAdd(old, proba)

\* One round of the dictionary update that compute_one_depth and
\* get_unique_leafs both run: sum into the entry of the state's hash, or
\* insert the state.
collect(dicts, state, proba) ==
    LET h == hash(state)
    IN  IF inDict(h, dicts)
        THEN LET i == CHOOSE i \in DOMAIN dicts.keys : dicts.keys[i] = h
             IN  [dicts EXCEPT !.probas[i] = merge(@, proba)]
        ELSE [keys |-> Append(dicts.keys, h),
              states |-> Append(dicts.states, state),
              probas |-> Append(dicts.probas, proba)]

\* The rounds lo..hi, in order, of the loop that collects pairs[n].state with
\* pairs[n].proba (split in halves only to keep the evaluation shallow).
RECURSIVE collectAll(_, _, _, _)
collectAll(dicts, pairs, lo, hi) ==
    IF lo > hi THEN dicts
    ELSE IF lo = hi
    THEN collect(dicts, pairs[lo].state, pairs[lo].proba)
    ELSE LET left == collectAll(dicts, pairs, lo, (lo + hi) \div 2)
         IN  IF Len(left.keys) = 0 THEN left  \* never: a round was run
             ELSE collectAll(left, pairs, ((lo + hi) \div 2) + 1, hi)

\* The whole loop, from empty dictionaries.
uniq(pairs) == collectAll(EmptyDicts, pairs, 1, Len(pairs))

\* child = delta(self.copy()) for one pair (delta, proba) of all_deltas.
applied(self, d) ==
    [decisions |-> d.decisions,
     coin_flips |-> d.coin_flips,
     proba |-> d.proba,
     state |-> delta(self, d.decisions, d.coin_flips, copy(self))]

\* The pairs of deltas with each delta applied to a copy of self.
appliedAll(self, deltas) == [n \in DOMAIN deltas |-> applied(self, deltas[n])]

\* The transitions out of self (whose depth compute_one_depth has already
\* increased): all_deltas with each delta applied.
transitions(self) == appliedAll(self, all_deltas(self))

\* The iteration order of a dict is the insertion order (Python 3.7 on); an
\* older interpreter iterates in an order of its own, the same for two
\* dicts filled with the same keys in the same order, which the reverse of
\* the insertion order stands for.
Orders == {"insertion", "reversed"}

Reverse(list) == [i \in 1..Len(list) |-> list[Len(list) + 1 - i]]

\* list(d.values()) for the values list in insertion order.
values(list) == IF order = "insertion" THEN list ELSE Reverse(list)

\* A variant where uniq_probas alone iterates in insertion order.
probasInserted(dicts) == dicts.probas

\* list(uniq_probas.values()) / list(uniq_complete_probas.values())
probasOf(dicts) == values(dicts.probas)

\* list(uniq_children.values()) / list(uniq_leafs.values())
childrenOf(dicts) == values(dicts.states)

\* The end of compute_one_depth: the dictionaries' values become the lists
\* of self.  raised: the assertion child.depth == self.depth - 1 failed for
\* a child that was stored.
stored(self, dicts) ==
    [state |-> [self EXCEPT !.probas = probasOf(dicts),
                            !.children = childrenOf(dicts)],
     raised |-> \E i \in DOMAIN dicts.states :
                    dicts.states[i].depth # self.depth - 1]

\* compute_one_depth: the state it leaves, and whether it raised: the
\* TypeError of a decision function, on the first step of all_deltas and
\* with the depth already increased, or else its own assertion.
compute_one_depth(self) ==
    IF decisionsRaise(self)
    THEN [state |-> [self EXCEPT !.depth = @ + 1], raised |-> TRUE]
    ELSE stored([self EXCEPT !.depth = @ + 1],
                uniq(transitions([self EXCEPT !.depth = @ + 1])))

\* explore_from_node_to_depth: the state it leaves, and whether an assertion
\* failed on the way.  exploreChildren is its loop over self.children from
\* the i-th child on, and explored the end of a round of that loop, r being
\* what the recursive call on the i-th child left.
RECURSIVE explore_from_node_to_depth(_, _)
RECURSIVE exploreChildren(_, _, _)
RECURSIVE explored(_, _, _, _)
explored(self, depth, i, r) ==
    IF r.raised
    THEN [state |-> [self EXCEPT !.children[i] = r.state], raised |-> TRUE]
    ELSE exploreChildren([self EXCEPT !.children[i] = r.state], depth, i + 1)

exploreChildren(self, depth, i) ==
    IF i > Len(self.children) THEN [state |-> self, raised |-> FALSE]
    ELSE explored(self, depth, i,
                  explore_from_node_to_depth(self.children[i], depth - 1))

\* The part of explore_from_node_to_depth after its call of
\* compute_one_depth, which left one.
computed(one, depth) ==
    IF one.raised THEN one
    ELSE IF depth > 1
    THEN exploreChildren([one.state EXCEPT !.depth = depth], depth, 1)
    ELSE [state |-> [one.state EXCEPT !.depth = depth], raised |-> FALSE]

explore_from_node_to_depth(self, depth) ==
    IF depth = 0 THEN [state |-> self, raised |-> FALSE]
    ELSE computed(compute_one_depth(self), depth)

----------------------------------------------------------------------------
(* Leafs *)

\* A variant that forgets the probability of the step to the child.
pathProbaDropped(proba, p) == p

\* proba * p
pathProba(proba, p) == FracMul(proba, p)

\* get_all_leafs: the parallel lists (complete_probas, leafs), and whether
\* the assertion len(self.probas) > 0 failed.  gatherLeafs is its loop over
\* zip(self.probas, self.children) from the i-th pair on, and gathered the
\* end of a round of that loop, sub being what the i-th child returned.
RECURSIVE get_all_leafs(_)
RECURSIVE gatherLeafs(_, _, _)
RECURSIVE gathered(_, _, _, _)
gathered(self, i, done, sub) ==
    IF sub.raised THEN sub
    ELSE gatherLeafs(self, i + 1,
                     [probas |-> done.probas \o
                                 [n \in DOMAIN sub.probas |->
                                    pathProba(self.probas[i], sub.probas[n])],
                      leafs |-> done.leafs \o sub.leafs,
                      raised |-> FALSE])

gatherLeafs(self, i, done) ==
    IF i > Min2(Len(self.probas), Len(self.children)) THEN done
    ELSE gathered(self, i, done, get_all_leafs(self.children[i]))

get_all_leafs(self) ==
    IF self.depth <= 1
    THEN [probas |-> self.probas, leafs |-> self.children, raised |-> FALSE]
    ELSE IF Len(self.probas) = 0
    THEN [probas |-> <<>>, leafs |-> <<>>, raised |-> TRUE]
    ELSE gatherLeafs(self, 1, [probas |-> <<>>, leafs |-> <<>>, raised |-> FALSE])

\* zip(complete_probas, leafs)
zip(probas, states) ==
    [n \in 1..Min2(Len(probas), Len(states)) |->
        [proba |-> probas[n], state |-> states[n]]]

\* The part of get_unique_leafs after its call of get_all_leafs, which
\* returned all.
uniqueOf(all, dicts) ==
    [probas |-> probasOf(dicts), leafs |-> childrenOf(dicts),
     raised |-> all.raised]

unique(all) == uniqueOf(all, uniq(zip(all.probas, all.leafs)))

\* get_unique_leafs
get_unique_leafs(self) == unique(get_all_leafs(self))

----------------
(* Arguments of main *)

\* The decision functions handed to main (one function for all players, as
\* test() builds the list); players = None selects default_policy.
Policies ==
    {"FixedArm", "UniformExploration", "Selfish_0Greedy_U",
     "Selfish_0Greedy_Utilde", "Selfish_UCB_U"}

\* Lists of arm means (Fractions); main is handed the first K of a list
\* (repeated from its start when K is larger than the list).  A
\* symbolic mean is modelled by each of the values it is handed.
MuLists ==
    {<< <<4, 5>>, <<1, 5>> >>, << <<1, 5>>, <<4, 5>> >>, << <<1, 1>>, <<4, 5>> >>}

\* (M, K) that main accepts, and some it rejects.
Shapes == {<<1, 1>>, <<1, 2>>, <<2, 2>>}

BadShapes == {<<2, 1>>, <<0, 1>>, <<1, ArmLimit + 1>>}

\* S, Stilde, N, Ntilde = None
NoStats ==
    [given |-> FALSE, S |-> Zeros(0, 0), Stilde |-> Zeros(0, 0),
     N |-> Zeros(0, 0), Ntilde |-> Zeros(0, 0)]

Matrix2(a, b, c, d) ==
    [j \in 0..1 |-> [k \in 0..1 |-> IF j = 0 THEN (IF k = 0 THEN a ELSE b)
                                     ELSE (IF k = 0 THEN c ELSE d)]]

\* The explicit statistics of the script's M, K = 2, 2 example.
ExampleStats ==
    [given |-> TRUE,
     S |-> Matrix2(1, 0, 1, 1),
     Stilde |-> Matrix2(1, 0, 1, 0),
     N |-> Matrix2(1, 1, 1, 1),
     Ntilde |-> Matrix2(1, 1, 1, 1)]

\* Two players with the same lines, as in the script's M, K = 2, 3 example,
\* here with two arms.
AbsorbingStats ==
    [given |-> TRUE,
     S |-> Matrix2(1, 0, 1, 0),
     Stilde |-> Matrix2(1, 0, 1, 0),
     N |-> Matrix2(1, 1, 1, 1),
     Ntilde |-> Matrix2(1, 1, 1, 1)]

PlayersArgs(M) ==
    {[given |-> FALSE, list |-> <<>>]}
        \cup {[given |-> TRUE, list |-> [i \in 1..M |-> p]] : p \in Policies}

\* The calls of main with the players and arms of shape sh = (M, K).
InputsOf(sh) ==
    [depth : (0..MaxDepth) \cup {-1, DepthLimit + 1},
     M : {sh[1]},
     K : {sh[2]},
     players : PlayersArgs(sh[1]),
     mus : {[k \in 1..sh[2] |-> m[((k - 1) % Len(m)) + 1]] : m \in MuLists},
     stats : {NoStats, ExampleStats, AbsorbingStats}]

NoState == State(Zeros(0, 0), Zeros(0, 0), Zeros(0, 0), Zeros(0, 0), <<>>, <<>>, 0)

NoResult == [probas |-> <<>>, leafs |-> <<>>]

\* No earlier run of main has returned.
NoEarlier == [given |-> FALSE, probas |-> <<>>, leafs |-> <<>>]

\* Nothing but main runs: no object is tracked, no generator is open.
NoFrame == [position |-> 0, decisions |-> <<>>, coin_flips |-> <<>>]

NoCaller == [pairs |-> <<>>, k |-> 0, child |-> NoState]

Unused ==
    /\ heap = <<>>
    /\ procs = <<>>
    /\ stack = <<>>
    /\ frame = NoFrame
    /\ caller = NoCaller

----------------------------------------------------------------------------
(* The driver *)

Init ==
    /\ \E sh \in Shapes \cup BadShapes : args \in InputsOf(sh)
    /\ pc = "start"
    /\ root = NoState
    /\ result = NoResult
    /\ absorbing = <<>>
    /\ order = "insertion"
    /\ earlier = NoEarlier
    /\ Unused

\* A variant of main's assertions that does not compare M with K.
supportedUnordered(M, K, depth) ==
    /\ 1 <= M /\ K <= ArmLimit
    /\ 0 <= depth /\ depth <= DepthLimit

\* assert 1 <= M <= K <= 10; assert 0 <= depth <= 5
supported(M, K, depth) ==
    /\ 1 <= M /\ M <= K /\ K <= ArmLimit
    /\ 0 <= depth /\ depth <= DepthLimit

\* main, up to the creation of the root state.
Main ==
    /\ pc = "start"
    /\ LET M0 == IF args.stats.given
                 THEN Min2(Rows(args.stats.S), Cols(args.stats.S))
                 ELSE args.M
           mus == args.mus
           K == Len(mus)
           players == IF args.players.given THEN args.players.list
                      ELSE [i \in 1..M0 |-> default_policy]
           M == Len(players)
           S == IF args.stats.given THEN args.stats.S ELSE Zeros(M, K)
           Stilde == IF args.stats.given THEN args.stats.Stilde ELSE Zeros(M, K)
           N == IF args.stats.given THEN args.stats.N ELSE Zeros(M, K)
           Ntilde == IF args.stats.given THEN args.stats.Ntilde ELSE Zeros(M, K)
       IN  IF ~supported(M, K, args.depth)
           THEN /\ pc' = "rejected"
                /\ root' = root
           ELSE IF ~InitAsserts(S, Stilde, N, Ntilde, mus, players)
           THEN /\ pc' = "init_failed"
                /\ root' = root
           ELSE /\ pc' = "root"
                /\ root' = State(S, Stilde, N, Ntilde, mus, players, 0)
    /\ UNCHANGED <<args, result, absorbing, order, earlier, aside>>

\* root.explore_from_node_to_depth(depth=depth)
Explore ==
    /\ pc = "root"
    /\ LET r == explore_from_node_to_depth(root, args.depth)
       IN  /\ root' = r.state
           /\ pc' = IF ~r.raised THEN "explored"
                    ELSE IF decisionsRaise(root) THEN "type_error"
                    ELSE "assert_failed"
    /\ UNCHANGED <<args, result, absorbing, order, earlier, aside>>

\* complete_probas, leafs = root.get_unique_leafs()
Collect ==
    /\ pc = "explored"
    /\ LET r == get_unique_leafs(root)
       IN  /\ result' = [probas |-> r.probas, leafs |-> r.leafs]
           /\ pc' = IF r.raised THEN "leafs_failed" ELSE "done"
    /\ UNCHANGED <<args, root, absorbing, order, earlier, aside>>

\* The rest of main: leaf.is_absorbing() for each leaf of
\* zip(complete_probas, leafs), then the return.
Report ==
    /\ pc = "done"
    /\ absorbing' = [i \in 1..Min2(Len(result.probas), Len(result.leafs)) |->
                       is_absorbing(result.leafs[i])]
    /\ pc' = "returned"
    /\ UNCHANGED <<args, root, result, order, earlier, aside>>

Next == Main \/ Explore \/ Collect \/ Report

Spec == Init /\ [][Next]_vars

\* Calls of State(S, Stilde, N, Ntilde, mus, players) on arrays of every
\* shape up to MaxDim x MaxDim and lists of every length up to MaxDim.
Arrays == {Zeros(r, c) : r \in 1..MaxDim, c \in 1..MaxDim}

ConstructorArgs ==
    [S : Arrays, Stilde : Arrays, N : Arrays, Ntilde : Arrays,
     mus : {[k \in 1..n |-> Frac(1, 2)] : n \in 1..MaxDim},
     players : {[i \in 1..n |-> default_policy] : n \in 1..MaxDim}]

InitConstruct ==
    /\ args \in ConstructorArgs
    /\ pc = "new"
    /\ root = NoState
    /\ result = NoResult
    /\ absorbing = <<>>
    /\ order = "insertion"
    /\ earlier = NoEarlier
    /\ Unused

\* State.__init__ on the arguments: the new State, or the AssertionError.
Construct ==
    /\ pc = "new"
    /\ IF InitAsserts(args.S, args.Stilde, args.N, args.Ntilde, args.mus,
                      args.players)
       THEN /\ pc' = "constructed"
            /\ root' = State(args.S, args.Stilde, args.N, args.Ntilde,
                             args.mus, args.players, 0)
       ELSE /\ pc' = "raised"
            /\ root' = root
    /\ UNCHANGED <<args, result, absorbing, order, earlier, aside>>

SpecConstruct == InitConstruct /\ [][Construct]_vars

\* A second, independent run of main with the same arguments, on an
\* interpreter of either kind: what the first run returned is kept aside.
Rerun ==
    /\ pc = "returned"
    /\ ~earlier.given
    /\ earlier' = [given |-> TRUE, probas |-> result.probas,
                 leafs |-> result.leafs]
    /\ order' \in Orders
    /\ pc' = "start"
    /\ root' = NoState
    /\ result' = NoResult
    /\ absorbing' = <<>>
    /\ UNCHANGED <<args, aside>>

NextTwoRuns == Main \/ Explore \/ Collect \/ Report \/ Rerun

SpecTwoRuns == Init /\ [][NextTwoRuns]_vars

----------------------------------------------------------------------------
(* What the properties below speak about *)

\* The four statistics of a state.
Stats(s) == <<s.S, s.N, s.Stilde, s.Ntilde>>

\* The nodes of the tree below node, each with its distance from the root.
RECURSIVE NodesBelow(_, _)
NodesBelow(node, dist) ==
    {[node |-> node, dist |-> dist]}
        \cup UNION {NodesBelow(node.children[i], dist + 1) :
                      i \in DOMAIN node.children}

\* The nodes of the explored tree.
Tree == IF pc = "explored" THEN NodesBelow(root, 0) ELSE {}

\* The nodes on which compute_one_depth has run.
Expanded == {x \in Tree : x.dist < args.depth}

\* A node as compute_one_depth saw it when it called all_deltas: created
\* with depth 0 and no children, its depth just increased.
Expanding(n) == [n EXCEPT !.depth = 1, !.children = <<>>, !.probas = <<>>]

\* The transitions that compute_one_depth generated at node n.
Steps(n) == transitions(Expanding(n))

\* The transition tr out of n left one of the children stored at n.
Kept(n, tr) ==
    \E i \in DOMAIN n.children : Stats(n.children[i]) = Stats(tr.state)

\* The sum of the probabilities of the transitions trs that lead to stats.
MassInto(trs, stats) ==
    FracSum([k \in DOMAIN trs |->
               IF Stats(trs[k].state) = stats THEN trs[k].proba ELSE Zero])

\* The number of players that chose arm k in the decision profile.
Choosers(decisions, k) == Cardinality({i \in DOMAIN decisions : decisions[i] = k})

----------------------------------------------------------------------------
(* C1..C10 *)

\* C1: after explore_from_node_to_depth(d), for every d >= 0, the leaf
\* probabilities returned by get_unique_leafs and by get_all_leafs sum to 1.
C1_LeafProbabilitiesSumToOne ==
    pc = "done" =>
        /\ FracSum(result.probas) = One
        /\ FracSum(get_all_leafs(root).probas) = One

\* C2 for one transition: each player's S entry for its chosen arm grows by
\* the outcome drawn for that arm.
C2_Step(n, tr) ==
    /\ Kept(n, tr)
    /\ \A j \in 0..(n.M - 1) :
          tr.state.S[j][tr.decisions[j + 1]]
              = n.S[j][tr.decisions[j + 1]]
                  + tr.coin_flips[tr.decisions[j + 1] + 1]

\* C2 for two transitions: the same decisions, and outcomes that differ only
\* on arms nobody chose, give the same child.
C2_Pair(tr1, tr2) ==
    (/\ tr1.decisions = tr2.decisions
     /\ \A k \in DOMAIN tr1.coin_flips :
           Choosers(tr1.decisions, k - 1) > 0
               => tr1.coin_flips[k] = tr2.coin_flips[k])
        => Stats(tr1.state) = Stats(tr2.state)

C2_At(n, trs) ==
    /\ \A k \in DOMAIN trs : C2_Step(n, trs[k])
    /\ \A k1, k2 \in DOMAIN trs : C2_Pair(trs[k1], trs[k2])

\* C2: in every transition each player j that chose arm Ij has S[j,Ij]
\* increased by the outcome drawn for arm Ij itself, so that outcomes of arms
\* nobody chose do not matter for the child.
C2_OutcomeOfChosenArm == \A x \in Expanded : C2_At(x.node, Steps(x.node))

\* C3 for one transition: the collision-free entries of player j for its
\* chosen arm are updated exactly when nobody else chose that arm.
C3_Step(n, tr) ==
    /\ Kept(n, tr)
    /\ \A j \in 0..(n.M - 1) :
          LET Ij == tr.decisions[j + 1]
              alone == Choosers(tr.decisions, Ij) = 1
              b == tr.state.S[j][Ij] - n.S[j][Ij]
          IN  /\ tr.state.Ntilde[j][Ij]
                    = n.Ntilde[j][Ij] + (IF alone THEN 1 ELSE 0)
              /\ tr.state.Stilde[j][Ij]
                    = n.Stilde[j][Ij] + (IF alone THEN b ELSE 0)

C3_At(n, trs) == \A k \in DOMAIN trs : C3_Step(n, trs[k])

\* C3: in every transition the Stilde/Ntilde entry of player j for its
\* chosen arm is incremented if and only if exactly one player chose that arm.
C3_CollisionFreeUpdate == \A x \in Expanded : C3_At(x.node, Steps(x.node))

\* C4 for one transition.
C4_Step(n, tr) ==
    /\ Kept(n, tr)
    /\ \A j \in 0..(n.M - 1) : \A k \in 0..(n.K - 1) :
          IF k = tr.decisions[j + 1]
          THEN /\ tr.state.N[j][k] = n.N[j][k] + 1
               /\ tr.state.S[j][k] - n.S[j][k] \in {0, 1}
          ELSE /\ tr.state.N[j][k] = n.N[j][k]
               /\ tr.state.S[j][k] = n.S[j][k]

C4_At(n, trs) == \A k \in DOMAIN trs : C4_Step(n, trs[k])

\* C4: in every transition, for each player j with chosen arm Ij, N[j,Ij]
\* increases by exactly 1 and S[j,Ij] by 0 or 1, and no other entry of S or N
\* changes.
C4_MonotonicStatistics == \A x \in Expanded : C4_At(x.node, Steps(x.node))

C4_WitnessAt(n, trs) ==
    /\ \E k \in DOMAIN trs : trs[k].state.S # n.S
    /\ \E k \in DOMAIN trs : trs[k].state.S = n.S

\* A node was expanded with a transition that raised S and one that did not.
C4_Witness == \E x \in Expanded : C4_WitnessAt(x.node, Steps(x.node))

\* C5: after compute_one_depth, children and probas are non-empty lists of
\* equal length and the entries of probas sum to exactly 1.
C5_ProbasSumToOne ==
    \A x \in Expanded :
        /\ Len(x.node.children) = Len(x.node.probas)
        /\ Len(x.node.children) > 0
        /\ FracSum(x.node.probas) = One

\* A node below the root was expanded into several children, fewer than
\* its transitions.
C5_Witness ==
    \E x \in Expanded :
        /\ x.dist > 0
        /\ Len(x.node.children) > 1
        /\ Len(x.node.children) < Len(Steps(x.node))

C7_At(n, trs) ==
    /\ \A i, j \in DOMAIN n.children :
          i # j => Stats(n.children[i]) # Stats(n.children[j])
    /\ \A i \in DOMAIN n.children :
          n.probas[i] = MassInto(trs, Stats(n.children[i]))

\* C7: after compute_one_depth no two children have identical
\* (S, N, Stilde, Ntilde), and each child's probability is the sum of the
\* probabilities of all generated transitions that result in that child.
C7_MergeBySummation == \A x \in Expanded : C7_At(x.node, Steps(x.node))

C7_WitnessAt(n, trs) ==
    \E i \in DOMAIN n.children :
        Cardinality({k \in DOMAIN trs :
                       Stats(trs[k].state) = Stats(n.children[i])}) >= 2

\* A child was stored into which at least two transitions were merged.
C7_Witness == \E x \in Expanded : C7_WitnessAt(x.node, Steps(x.node))

\* No two of the transitions trs result in the same statistics.
AllDistinct(trs) ==
    \A k1, k2 \in DOMAIN trs :
        k1 # k2 => Stats(trs[k1].state) # Stats(trs[k2].state)

C8_At(n, trs) ==
    /\ Len(n.children) <= Len(trs)
    /\ Len(n.children) = Len(trs) => AllDistinct(trs)

\* C8: the number of children after compute_one_depth never exceeds the
\* number of (decision profile, outcome profile) pairs of all_deltas, and
\* equals it only when no two transitions result in the same statistics.
C8_DedupCorrectness == \A x \in Expanded : C8_At(x.node, Steps(x.node))

C8_WitnessAt(n, trs) == Len(trs) > 1 /\ Len(n.children) = Len(trs)

\* A node below the root has several transitions and as many children.
C8_Witness ==
    \E x \in Expanded : x.dist > 0 /\ C8_WitnessAt(x.node, Steps(x.node))

\* The paths from node down to the leaves: each with the child indexes it
\* follows, the leaf it ends in and the product of the transition
\* probabilities along it (proba is the product accumulated above node).
RECURSIVE PathsBelow(_, _, _)
PathsBelow(node, path, proba) ==
    IF node.children = <<>>
    THEN {[path |-> path, leaf |-> Stats(node), proba |-> proba]}
    ELSE UNION {PathsBelow(node.children[i], Append(path, i),
                           FracMul(proba, node.probas[i])) :
                  i \in DOMAIN node.children}

\* The sum of the probabilities of a set of paths.
RECURSIVE PathsMass(_)
PathsMass(paths) ==
    IF paths = {} THEN Zero
    ELSE LET p == CHOOSE q \in paths : TRUE
         IN  FracAdd(p.proba, PathsMass(paths \ {p}))

C9_Over(paths) ==
    /\ Len(result.probas) = Len(result.leafs)
    /\ \A i, j \in DOMAIN result.leafs :
          i # j => Stats(result.leafs[i]) # Stats(result.leafs[j])
    /\ {Stats(result.leafs[i]) : i \in DOMAIN result.leafs}
          = {p.leaf : p \in paths}
    /\ \A i \in DOMAIN result.leafs :
          result.probas[i]
              = PathsMass({p \in paths : p.leaf = Stats(result.leafs[i])})

\* C9: on a tree explored to depth d >= 1, get_unique_leafs returns parallel
\* lists in which no two leaves have identical (S, N, Stilde, Ntilde), and
\* each leaf's probability is the sum, over all root-to-leaf paths ending in
\* that state, of the product of the transition probabilities on the path.
C9_UniqueLeafs ==
    (pc = "done" /\ args.depth >= 1) => C9_Over(PathsBelow(root, <<>>, One))

\* A tree of depth at least 2 where several paths end in the same leaf, and
\* get_unique_leafs has returned.
C9_Witness ==
    /\ pc = "done"
    /\ args.depth >= 2
    /\ Len(result.leafs) > 1
    /\ Len(result.leafs) < Len(get_all_leafs(root).leafs)

\* main(depth=1, M=1, K=1) from the all-zero root.
C10_Scenario ==
    /\ pc = "done"
    /\ args.depth = 1
    /\ ~args.stats.given
    /\ root.M = 1
    /\ root.K = 1

\* C10: with M=1, K=1, depth=1 and mean p, one step from the all-zero root
\* yields exactly 2 unique leaves, one with N=[[1]], S=[[1]] at probability p
\* and one with N=[[1]], S=[[0]] at probability 1-p.
C10_OnePlayerOneArm ==
    C10_Scenario =>
        /\ Len(result.leafs) = 2
        /\ Len(result.probas) = 2
        /\ \E i \in 1..2 :
              /\ result.leafs[i].N = [Zeros(1, 1) EXCEPT ![0][0] = 1]
              /\ result.leafs[i].S = [Zeros(1, 1) EXCEPT ![0][0] = 1]
              /\ result.probas[i] = args.mus[1]
        /\ \E i \in 1..2 :
              /\ result.leafs[i].N = [Zeros(1, 1) EXCEPT ![0][0] = 1]
              /\ result.leafs[i].S = Zeros(1, 1)
              /\ result.probas[i] = FracOneMinus(args.mus[1])

\* The scenario has run, with a mean p different from 1-p.
C10_Witness == C10_Scenario /\ args.mus[1] # FracOneMinus(args.mus[1])

----------------------------------------------------------------------------
(* C11..C20 *)

\* The three greedy decision functions.
Greedy == {"Selfish_0Greedy_U", "Selfish_0Greedy_Utilde", "Selfish_0Greedy_Ubar"}

\* main(depth=1, M=2, K=2) with means [0.8, 0.2] and a greedy rule for both
\* players, explored from the all-zero root.
C11_Scenario ==
    /\ pc = "explored"
    /\ args.depth = 1
    /\ ~args.stats.given
    /\ root.M = 2
    /\ root.K = 2
    /\ root.mus = <<Frac(4, 5), Frac(1, 5)>>
    /\ \A i \in DOMAIN root.players : root.players[i] \in Greedy

\* C11: with M=2, K=2, means [0.8, 0.2], a greedy rule and depth 1 from the
\* all-zero root, each player's candidate set is all arms, 4 x 4 = 16
\* transitions are generated, and they collapse into strictly fewer than 16
\* distinct children whose probabilities sum to 1.
C11_TwoPlayersTwoArms ==
    C11_Scenario =>
        /\ all_decisions(Expanding(root)) = << <<0, 1>>, <<0, 1>> >>
        /\ Len(Steps(root)) = 16
        /\ Len(root.children) < 16
        /\ Len(root.children) > 0
        /\ FracSum(root.probas) = One

\* C12: in every state of an explored tree, the field t equals the sum of
\* all entries of that state's N matrix.
C12_TimeIsSumOfN == \A x \in Tree : x.node.t = NpSum(x.node.N)

\* The greedy index of arm k for player j in state n under rule g, as a
\* pair <<numerator, denominator>> of counts (N[j][k] >= 1).
GreedyIndex(g, n, j, k) ==
    CASE g = "Selfish_0Greedy_U" -> <<n.S[j][k], n.N[j][k]>>
      [] g = "Selfish_0Greedy_Utilde" -> <<n.Stilde[j][k], n.N[j][k]>>
      [] g = "Selfish_0Greedy_Ubar" ->
            <<n.Ntilde[j][k] * n.S[j][k], n.N[j][k] * n.N[j][k]>>

\* Arm k's index is at least arm l's, an untried arm having index +oo.
AtLeast(g, n, j, k, l) ==
    \/ n.N[j][k] < 1
    \/ /\ n.N[j][l] >= 1
       /\ GreedyIndex(g, n, j, l)[1] * GreedyIndex(g, n, j, k)[2]
             <= GreedyIndex(g, n, j, k)[1] * GreedyIndex(g, n, j, l)[2]

\* The arms attaining the maximum index.
Maximal(g, n, j) ==
    {k \in 0..(n.K - 1) : \A l \in 0..(n.K - 1) : AtLeast(g, n, j, k, l)}

\* The arms player j has not tried.
Untried(n, j) == {k \in 0..(n.K - 1) : n.N[j][k] < 1}

\* The arms in a list of candidates.
Arms(choices) == {choices[i] : i \in DOMAIN choices}

C13_Choice(g, n, j, choices) ==
    /\ Len(choices) > 0
    /\ Arms(choices) = Maximal(g, n, j)
    /\ Untried(n, j) # {} => Arms(choices) = Untried(n, j)

\* C13: for any player j and any state, a greedy decision function returns
\* exactly the arms attaining the maximum index, arms with N[j,k] < 1 having
\* index +infinity; if player j has an untried arm the result is exactly its
\* untried arms; the result is never empty.
C13_GreedyTieSet ==
    \A x \in Tree : \A j \in 0..(x.node.M - 1) : \A g \in Greedy :
        C13_Choice(g, x.node, j, Call(g, j, x.node))

\* A state of an explored tree where a player has tried and untried arms,
\* and one where a player has tried every arm and prefers one of them.
C13_Witness ==
    /\ \E x \in Tree : \E j \in 0..(x.node.M - 1) :
          /\ Untried(x.node, j) # {}
          /\ Untried(x.node, j) # 0..(x.node.K - 1)
    /\ \E x \in Tree : \E j \in 0..(x.node.M - 1) : \E g \in Greedy :
          /\ Untried(x.node, j) = {}
          /\ Arms(Call(g, j, x.node)) # 0..(x.node.K - 1)

\* The decision functions of the engine that the model covers.
Shipped == Greedy \cup {"FixedArm", "UniformExploration", "Selfish_UCB_U"}

\* The states a decision function is called with here: the root as main
\* built it, and every state of the explored tree.
Called ==
    IF pc = "root" THEN {root}
    ELSE {x.node : x \in Tree}

C14_Call(f, n, j) ==
    /\ ~Raises(f, j, n)
    /\ Len(Call(f, j, n)) > 0
    /\ Arms(Call(f, j, n)) \subseteq 0..(n.K - 1)

\* C14: every decision function shipped with the engine, called with a
\* valid player index and any state including the all-zero root, returns a
\* non-empty set of arm indices within 0..K-1 and never raises; so no
\* exploration ends with the error of a decision function.
C14_DecisionsNeverRaise ==
    /\ pc # "type_error"
    /\ \A n \in Called : \A j \in 0..(n.M - 1) : \A f \in Shipped :
          C14_Call(f, n, j)

\* The (leaf statistics, probability) pairs of returned lists.
Pairs(r) ==
    {<<Stats(r.leafs[i]), r.probas[i]>> :
       i \in 1..Min2(Len(r.leafs), Len(r.probas))}

C16_AbsorptionIsStable ==
    \A x \in Expanded :
        is_absorbing(x.node) =>
            \A i \in DOMAIN x.node.children : is_absorbing(x.node.children[i])

\* What is_absorbing is to decide: every player has tried every arm, and
\* two players have the same lines in the four matrices, the values of that
\* line of S being pairwise different.
Absorbed(n) ==
    /\ \A j \in 0..(n.M - 1) : \A k \in 0..(n.K - 1) : n.N[j][k] >= 1
    /\ \E j1, j2 \in 0..(n.M - 1) :
          /\ j1 # j2
          /\ \A k \in 0..(n.K - 1) :
                /\ n.S[j1][k] = n.S[j2][k]
                /\ n.Stilde[j1][k] = n.Stilde[j2][k]
                /\ n.N[j1][k] = n.N[j2][k]
                /\ n.Ntilde[j1][k] = n.Ntilde[j2][k]
          /\ \A k1, k2 \in 0..(n.K - 1) :
                k1 # k2 => n.S[j1][k1] # n.S[j1][k2]

C18_ShapeIsPlayersByArms ==
    pc = "constructed" =>
        /\ Shape(root.S) = <<Len(root.players), Len(root.mus)>>
        /\ Shape(root.Stilde) = <<Len(root.players), Len(root.mus)>>
        /\ Shape(root.N) = <<Len(root.players), Len(root.mus)>>
        /\ Shape(root.Ntilde) = <<Len(root.players), Len(root.mus)>>

\* The arguments of the constructor do not fit: the shapes of the four
\* arrays are not all equal, or players is not as long as the number of
\* players or mus as the number of arms (the M and K a State takes from the
\* shape of S, its smaller and its larger dimension).
Mismatch ==
    \/ Shape(args.S) # Shape(args.Stilde)
    \/ Shape(args.S) # Shape(args.N)
    \/ Shape(args.S) # Shape(args.Ntilde)
    \/ Len(args.players) # Min2(Rows(args.S), Cols(args.S))
    \/ Len(args.mus) # Max2(Rows(args.S), Cols(args.S))

EffectiveM ==
    IF args.players.given THEN Len(args.players.list)
    ELSE IF args.stats.given
    THEN Min2(Rows(args.stats.S), Cols(args.stats.S))
    ELSE args.M

EffectiveK == Len(args.mus)

OutOfRange ==
    \/ ~(1 <= EffectiveM /\ EffectiveM <= EffectiveK /\ EffectiveK <= 10)
    \/ ~(0 <= args.depth /\ args.depth <= 5)

\* C20: main rejects any call whose effective M and K violate
\* 1 <= M <= K <= 10 or whose depth is outside 0..5, before the root State
\* is created and before any expansion runs.
C20_DriverRejects ==
    (pc # "start" /\ OutOfRange) =>
        /\ pc = "rejected"
        /\ root = NoState
        /\ result = NoResult

\* main has rejected a call with too many arms.
C20_Witness == pc = "rejected" /\ EffectiveK > 10 /\ root = NoState

----------------------------------------------------------------------------
(* all_deltas: one transition per (decision profile, outcome profile) *)

\* The decision profiles over the candidate lists cands: one candidate for
\* each player.
Profiles(cands) ==
    {p \in [DOMAIN cands -> UNION {{cands[j][i] : i \in DOMAIN cands[j]} :
                                     j \in DOMAIN cands}] :
        \A j \in DOMAIN cands : \E i \in DOMAIN cands[j] : p[j] = cands[j][i]}

\* The outcome profiles: a 0 or a 1 for each of the K arms.
Outcomes(K) == [1..K -> {0, 1}]

\* The product over the arms of (mean if outcome = 1 else 1 - mean).
Weight(outcome, mus) ==
    prod([k \in DOMAIN mus |->
            IF outcome[k] = 1 THEN mus[k] ELSE FracOneMinus(mus[k])])

\* The number of pairs of ds that carry the profile p and the outcome f.
Carrying(ds, p, f) ==
    Cardinality({n \in DOMAIN ds :
                   ds[n].decisions = p /\ ds[n].coin_flips = f})

C22_At(self, cands, ds) ==
    /\ Len(ds) = Cardinality(Profiles(cands)) * Cardinality(Outcomes(self.K))
    /\ \A p \in Profiles(cands) : \A f \in Outcomes(self.K) :
          Carrying(ds, p, f) = 1
    /\ \A n \in DOMAIN ds :
          ds[n].proba = FracDivInt(Weight(ds[n].coin_flips, self.mus),
                                   Cardinality(Profiles(cands)))

\* C22: at every expanded node all_deltas yields exactly one transition for
\* every pair (decision profile, outcome profile), that is (product of the
\* sizes of the players' candidate sets) x 2^K transitions, each with
\* probability (product over the arms of the mean if the outcome is 1, else
\* of 1 - mean) divided by the number of decision profiles.
C22_OneTransitionPerPair ==
    \A x \in Expanded :
        C22_At(Expanding(x.node), all_decisions(Expanding(x.node)),
               all_deltas(Expanding(x.node)))

\* A node of two players with two candidates each and two arms has been
\* expanded: 4 x 4 transitions, next to a node where a player had a single
\* candidate.
C22_Witness ==
    /\ \E x \in Expanded : Len(all_deltas(Expanding(x.node))) = 16
    /\ \E x \in Expanded :
          /\ x.node.M = 2
          /\ Len(all_deltas(Expanding(x.node))) < 16

----------------------------------------------------------------------------
(* probas: no transition of probability 0 *)

\* Every arm mean is a probability: a Fraction between 0 and 1.
ValidMeans(mus) ==
    \A k \in DOMAIN mus : 0 <= mus[k][1] /\ mus[k][1] <= mus[k][2]

\* C23: for arm means that are valid probabilities, every entry of probas
\* at every expanded node lies in (0, 1]: no child is stored with
\* transition probability 0.
C23_ProbasPositive ==
    \A x \in Expanded :
        ValidMeans(x.node.mus) =>
            \A i \in DOMAIN x.node.probas :
                /\ 0 < x.node.probas[i][1]
                /\ x.node.probas[i][1] <= x.node.probas[i][2]

----------------------------------------------------------------------------
(* trees grown from the all-zero root *)

\* main built the root itself, from np.zeros((M, K)).
FromZeroRoot == pc = "explored" /\ ~args.stats.given

\* The sum of row j of the matrix A of a node with K arms.
RowSum(A, j, K) == SumSeq([k \in 1..K |-> A[j][k - 1]])

\* C29: each player pulls exactly one arm per step: in a tree explored from
\* the all-zero root, every node at distance L from the root has every row
\* of N summing to exactly L.
C29_OneArmPerStep ==
    FromZeroRoot =>
        \A x \in Tree : \A j \in 0..(x.node.M - 1) :
            RowSum(x.node.N, j, x.node.K) = x.dist

\* A tree of two players and two arms holds a node at distance 2 where a
\* player pulled both arms, and one where a player pulled one arm twice.
C29_Witness ==
    /\ FromZeroRoot
    /\ \E x \in Tree :
          /\ x.dist = 2
          /\ x.node.M = 2
          /\ x.node.N[0][0] = 1
          /\ x.node.N[0][1] = 1
    /\ \E x \in Tree : x.dist = 2 /\ x.node.M = 2 /\ x.node.N[1][1] = 2

C30_Ordered(n, j, k) ==
    /\ 0 <= n.Stilde[j][k]
    /\ n.Stilde[j][k] <= n.S[j][k]
    /\ n.S[j][k] <= n.N[j][k]
    /\ n.Stilde[j][k] <= n.Ntilde[j][k]
    /\ n.Ntilde[j][k] <= n.N[j][k]

\* C30: in every state reachable from the all-zero root the statistics are
\* ordered elementwise: 0 <= Stilde[j,k] <= S[j,k] <= N[j,k] and
\* Stilde[j,k] <= Ntilde[j,k] <= N[j,k] for every player j and arm k.
C30_StatisticsOrdered ==
    FromZeroRoot =>
        \A x \in Tree : \A j \in 0..(x.node.M - 1) :
            \A k \in 0..(x.node.K - 1) : C30_Ordered(x.node, j, k)

\* A reachable state where all the inequalities are strict for one player
\* and arm: two trials, one success, one trial without collision, failed.
C30_Witness ==
    /\ FromZeroRoot
    /\ \E x \in Tree : \E j \in 0..(x.node.M - 1) :
          \E k \in 0..(x.node.K - 1) :
              /\ x.node.Stilde[j][k] < x.node.S[j][k]
              /\ x.node.S[j][k] < x.node.N[j][k]
              /\ x.node.Stilde[j][k] < x.node.Ntilde[j][k]
              /\ x.node.Ntilde[j][k] < x.node.N[j][k]

\* No two players can target the same arm: main was handed FixedArm for
\* every player, or there is one player only.
CollisionFree ==
    \/ root.M = 1
    \/ /\ args.players.given
       /\ \A i \in DOMAIN args.players.list : args.players.list[i] = "FixedArm"

\* C31: without collisions the collision-free statistics coincide with the
\* raw ones: when every player uses FixedArm or when M = 1, every state
\* reachable from the all-zero root has Stilde equal to S and Ntilde equal
\* to N.
C31_NoCollisionNoDifference ==
    (FromZeroRoot /\ CollisionFree) =>
        \A x \in Tree : x.node.Stilde = x.node.S /\ x.node.Ntilde = x.node.N

\* Two FixedArm players two steps below the all-zero root: the second one
\* has sensed its arm free twice and transmitted twice.
C31_Witness ==
    /\ FromZeroRoot
    /\ root.M = 2
    /\ args.players.given
    /\ \A i \in DOMAIN args.players.list : args.players.list[i] = "FixedArm"
    /\ \E x \in Tree :
          /\ x.dist = 2
          /\ x.node.S[1][1] = 2
          /\ x.node.Stilde[1][1] = 2
          /\ x.node.Ntilde[0][0] = 2

----------------------------------------------------------------------------
(* The generator all_deltas and its closures *)

\* The State that main builds for the call a (lines 327-348).
RootFor(a) ==
    LET M0 == IF a.stats.given
              THEN Min2(Rows(a.stats.S), Cols(a.stats.S)) ELSE a.M
        players == IF a.players.given THEN a.players.list
                   ELSE [i \in 1..M0 |-> default_policy]
    IN  IF a.stats.given
        THEN State(a.stats.S, a.stats.Stilde, a.stats.N, a.stats.Ntilde,
                   a.mus, players, 0)
        ELSE State(Zeros(Len(players), Len(a.mus)),
                   Zeros(Len(players), Len(a.mus)),
                   Zeros(Len(players), Len(a.mus)),
                   Zeros(Len(players), Len(a.mus)), a.mus, players, 0)

\* Calls of main whose root State a caller can take all_deltas of.
GeneratorInputs ==
    {a \in UNION {InputsOf(sh) : sh \in Shapes} :
        /\ a.depth = 1
        /\ a.stats.given => (a.M = 2 /\ a.K = 2)}

\* g = self.all_deltas(): the generator is created, its body has not run.
InitGenerator ==
    /\ args \in GeneratorInputs
    /\ root = RootFor(args)
    /\ pc = "created"
    /\ frame = NoFrame
    /\ caller = NoCaller
    /\ result = NoResult
    /\ absorbing = <<>>
    /\ order = "insertion"
    /\ earlier = NoEarlier
    /\ heap = <<>>
    /\ procs = <<>>
    /\ stack = <<>>

\* next(g): the body of all_deltas runs to its next yield.  The loop
\* variables decisions and coin_flips are locals of the frame; the pair
\* yielded holds the function delta defined in this round and its proba.
\* The first call evaluates all_decisions, and raises if a player does.
Advance ==
    /\ pc \in {"created", "suspended"}
    /\ IF decisionsRaise(root)
       THEN /\ pc' = "type_error"
            /\ UNCHANGED <<frame, caller>>
       ELSE IF frame.position < Len(all_deltas(root))
       THEN LET n == frame.position + 1
                d == all_deltas(root)[n]
            IN  /\ frame' = [position |-> n, decisions |-> d.decisions,
                             coin_flips |-> d.coin_flips]
                /\ caller' = [caller EXCEPT
                                !.pairs = Append(@, [delta |-> n,
                                                     proba |-> d.proba])]
                /\ pc' = "suspended"
       ELSE /\ pc' = "exhausted"
            /\ UNCHANGED <<frame, caller>>
    /\ UNCHANGED <<args, root, result, absorbing, order, earlier, heap,
                   procs, stack>>

\* child = pairs[k][0](self.copy()): the caller applies the delta of a pair
\* it was handed.  delta names decisions and coin_flips as free variables:
\* Python looks them up in the generator's frame when delta runs.
Apply ==
    /\ pc \in {"suspended", "exhausted"}
    /\ \E k \in DOMAIN caller.pairs :
          caller' = [caller EXCEPT
                       !.k = k,
                       !.child = delta(root, frame.decisions,
                                       frame.coin_flips, copy(root))]
    /\ UNCHANGED <<args, pc, root, result, absorbing, order, earlier, heap,
                   procs, stack, frame>>

NextGenerator == Advance \/ Apply

SpecGenerator == InitGenerator /\ [][NextGenerator]_vars

\* C24: each (delta, proba) pair yielded by all_deltas is frozen: whenever
\* delta is applied, even after the generator has been advanced to later
\* pairs, it applies the decision profile and the outcome profile for which
\* its proba was computed.
C24_PairsAreFrozen ==
    caller.k # 0 =>
        caller.child = delta(root, all_deltas(root)[caller.k].decisions,
                             all_deltas(root)[caller.k].coin_flips,
                             copy(root))

----------------------------------------------------------------------------
(* The exploration on objects.                                              *)
(* heap[id] is the object of identity id: an ndarray with its data, or a    *)
(* State whose fields S, Stilde, N, Ntilde hold the ids of its four arrays  *)
(* and whose children field holds the ids of its child States.  The fields  *)
(* runs (the calls of compute_one_depth on the State so far) and dist (its  *)
(* distance from the root) are bookkeeping that the program does not keep.  *)
(* An intermediate heap is bound as the one element of a set, x \in {e},    *)
(* so that it is computed once.                                             *)

Ndarray(data) == [kind |-> "ndarray", data |-> data]

\* A variant of np.copy that hands back the array it was given.
np_view(h, id) == id

\* np.copy(array): the identity of the new array, the next free one.
np_copy(h, id) == Len(h) + 1

\* self.S = np.copy(S) ... self.Ntilde = np.copy(Ntilde), for the arrays
\* ids: the heap with the copies, and what the four fields refer to.
RECURSIVE copies(_, _, _)
copies(h, ids, refs) ==
    IF ids = <<>> THEN [heap |-> h, refs |-> refs]
    ELSE CHOOSE c \in {copies(x, Tail(ids),
                               Append(refs, np_copy(h, Head(ids)))) :
                          x \in {Append(h, h[Head(ids)])}} : TRUE

\* The rest of State.__init__, c being what the four copies left: the new
\* State is the last object of the heap.
StateObject(c, N, mus, players, depth, dist) ==
    Append(c.heap,
           [kind |-> "State",
            S |-> c.refs[1], Stilde |-> c.refs[2],
            N |-> c.refs[3], Ntilde |-> c.refs[4],
            mus |-> mus, players |-> players,
            depth |-> depth,
            t |-> NpSum(c.heap[N].data),
            M |-> Min2(Rows(c.heap[N].data), Cols(c.heap[N].data)),
            K |-> Max2(Rows(c.heap[N].data), Cols(c.heap[N].data)),
            children |-> <<>>, probas |-> <<>>,
            runs |-> 0, dist |-> dist])

\* State(S, Stilde, N, Ntilde, mus, players, depth) on the arrays ids.
State_at(h, ids, mus, players, depth, dist) ==
    CHOOSE new \in {StateObject(c, ids[3], mus, players, depth, dist) :
                       c \in {copies(h, ids, <<>>)}} : TRUE

\* The State object id as the record of its values.
View(h, id) ==
    [S |-> h[h[id].S].data, Stilde |-> h[h[id].Stilde].data,
     N |-> h[h[id].N].data, Ntilde |-> h[h[id].Ntilde].data,
     mus |-> h[id].mus, players |-> h[id].players,
     depth |-> h[id].depth, t |-> h[id].t,
     M |-> h[id].M, K |-> h[id].K,
     children |-> <<>>, probas |-> <<>>]

\* self.copy(): a State one step further from the root.
copy_at(h, id) ==
    State_at(h, <<h[id].S, h[id].Stilde, h[id].N, h[id].Ntilde>>,
             h[id].mus, h[id].players, h[id].depth, h[id].dist + 1)

\* delta writes in place: v is the State object c as delta leaves it.
written(h, c, v) ==
    [h EXCEPT ![c].t = v.t, ![c].depth = v.depth,
              ![h[c].S].data = v.S, ![h[c].Stilde].data = v.Stilde,
              ![h[c].N].data = v.N, ![h[c].Ntilde].data = v.Ntilde]

\* delta(s) for the State object c, called from the expansion of self.
delta_at(h, self, decisions, coin_flips, c) ==
    CHOOSE new \in {written(h, c, v) :
                       v \in {delta(View(h, self), decisions, coin_flips,
                                    View(h, c))}} : TRUE

\* A variant of the greedy rules that divides in place, in row j of the
\* state's array src (1000 standing for +oo, quotients truncated).
indexesInPlace(h, src, j, indexes) ==
    [h EXCEPT ![src].data[j] =
        [k \in 0..(Len(indexes) - 1) |->
            IF indexes[k + 1].inf THEN 1000
            ELSE indexes[k + 1].num \div indexes[k + 1].den]]

\* indexes = state.S[j] / state.N[j]; indexes[state.N[j] < 1] = +oo: the
\* quotient is a new array, and the assignment writes into it.
indexesOf(h, src, j, indexes) == Append(h, Ndarray(indexes))

\* The heap after the call player(j, state) on the State object id.
decide_at(h, id, player, j) ==
    CASE player = "FixedArm" -> h
      [] player = "UniformExploration" -> h
      [] player = "Selfish_0Greedy_U" ->
            indexesOf(h, h[id].S, j,
                      Forced(View(h, id), j, tupleit1(h[h[id].S].data[j]),
                             tupleit1(h[h[id].N].data[j])))
      [] player = "Selfish_0Greedy_Utilde" ->
            indexesOf(h, h[id].Stilde, j,
                      Forced(View(h, id), j,
                             tupleit1(h[h[id].Stilde].data[j]),
                             tupleit1(h[h[id].N].data[j])))
      [] player = "Selfish_0Greedy_Ubar" ->
            indexesOf(h, h[id].Ntilde, j,
                      Forced(View(h, id), j,
                             [i \in 1..h[id].K |->
                                h[h[id].Ntilde].data[j][i - 1]
                                    * h[h[id].S].data[j][i - 1]],
                             [i \in 1..h[id].K |->
                                h[h[id].N].data[j][i - 1]
                                    * h[h[id].N].data[j][i - 1]]))

\* all_decisions = [ player(j, self) for j, player in enumerate(...) ] from
\* player j on: the heap the calls leave and the lists they returned.
RECURSIVE all_decisions_at(_, _, _, _)
all_decisions_at(h, id, j, lists) ==
    IF j >= Len(h[id].players) THEN [heap |-> h, lists |-> lists]
    ELSE CHOOSE dec \in
             {all_decisions_at(x, id, j + 1, y) :
                x \in {decide_at(h, id, h[id].players[j + 1], j)},
                y \in {Append(lists, Call(h[id].players[j + 1], j,
                                          View(h, id)))}} : TRUE

\* The dictionary round of compute_one_depth for the child c (the object
\* that delta returned) and its proba; the dictionary holds identities.
collect_at(dicts, h, c, proba) ==
    IF inDict(hash(View(h, c)), dicts)
    THEN [dicts EXCEPT
            !.probas[CHOOSE i \in DOMAIN dicts.keys :
                        dicts.keys[i] = hash(View(h, c))] = merge(@, proba)]
    ELSE [keys |-> Append(dicts.keys, hash(View(h, c))),
          states |-> Append(dicts.states, c),
          probas |-> Append(dicts.probas, proba)]

\* The loop of compute_one_depth from the n-th pair of all_deltas on.
\* round is what follows child = delta(self.copy()), which left the heap h
\* with the child as its last object.
RECURSIVE children_at(_, _, _, _, _)
round(h, id, deltas, n, dicts) ==
    CHOOSE r \in {children_at(h, id, deltas, n + 1, x) :
                     x \in {collect_at(dicts, h, Len(h), deltas[n].proba)}} :
        TRUE

applied_at(h, id, d) == delta_at(h, id, d.decisions, d.coin_flips, Len(h))

\* child = delta(self.copy()) for the pair d: the heap it leaves.
child_at(h, id, d) ==
    CHOOSE new \in {applied_at(x, id, d) : x \in {copy_at(h, id)}} : TRUE

children_at(h, id, deltas, n, dicts) ==
    IF n > Len(deltas) THEN [heap |-> h, dicts |-> dicts]
    ELSE CHOOSE r \in {round(x, id, deltas, n, dicts) :
                          x \in {child_at(h, id, deltas[n])}} : TRUE

\* The end of compute_one_depth, r being what the loop left.
stored_at(r, id) ==
    [r.heap EXCEPT ![id].probas = probasOf(r.dicts),
                   ![id].children = childrenOf(r.dicts)]

\* The part of compute_one_depth after all_decisions, which left dec.
decided_at(dec, id) ==
    CHOOSE new \in
        {stored_at(r, id) :
           r \in {children_at(dec.heap, id, deltas, 1, EmptyDicts) :
                    deltas \in {<<>> \o yields(View(dec.heap, id),
                                               dec.lists)}}} :
        TRUE

\* compute_one_depth on the State object id: the heap it leaves.
compute_one_depth_at(h, id) ==
    CHOOSE new \in
        {decided_at(dec, id) :
           dec \in {all_decisions_at(live, id, 0, <<>>) :
                      live \in {[h EXCEPT ![id].depth = @ + 1,
                                          ![id].runs = @ + 1]}}} : TRUE

\* The State object id and all below it as one record, children inside.
RECURSIVE TreeAt(_, _)
TreeAt(h, id) ==
    [View(h, id) EXCEPT
        !.probas = h[id].probas,
        !.children = [i \in DOMAIN h[id].children |->
                        TreeAt(h, h[id].children[i])]]

\* The calls of main the exploration on objects is run for: the shapes
\* main accepts, depths 0..MaxDepth, one list of means, and every rule
\* (UniformExploration for one player: two greedy players at the all-zero
\* root have the same 16 transitions as two uniform ones).
StepInputs ==
    {a \in UNION {InputsOf(sh) : sh \in Shapes} :
        /\ a.depth \in 0..MaxDepth
        /\ a.mus[1] = <<4, 5>>
        /\ (a.players.given /\ a.M = 2) =>
              a.players.list[1] # "UniformExploration"
        /\ a.stats.given => (a.M = 2 /\ a.K = 2 /\ a.stats = ExampleStats)}

\* The heap when main has created the root State for the call a: the four
\* arrays main built or was handed, their copies and the root, the last
\* object.
InitialHeap(a) ==
    State_at(<<Ndarray(RootFor(a).S), Ndarray(RootFor(a).Stilde),
               Ndarray(RootFor(a).N), Ndarray(RootFor(a).Ntilde)>>,
             <<1, 2, 3, 4>>, RootFor(a).mus, RootFor(a).players, 0, 0)

RootId == Len(InitialHeap(args))

\* main is about to call root.explore_from_node_to_depth(depth=depth).
InitSteps ==
    /\ args \in StepInputs
    /\ heap = InitialHeap(args)
    /\ stack = <<[node |-> Len(heap), depth |-> args.depth]>>
    /\ pc = "exploring"
    /\ root = NoState
    /\ result = NoResult
    /\ absorbing = <<>>
    /\ order = "insertion"
    /\ earlier = NoEarlier
    /\ procs = <<>>
    /\ frame = NoFrame
    /\ caller = NoCaller

\* A variant that recurses only from depth 3 on.
descendsLate(depth) == depth > 2

\* if depth > 1
descends(depth) == depth > 1

\* for child in self.children: child.explore_from_node_to_depth(depth - 1),
\* as the calls to come, in order.
Calls(h, id, depth) ==
    [i \in DOMAIN h[id].children |->
        [node |-> h[id].children[i], depth |-> depth - 1]]

\* assert child.depth == (self.depth - 1) failed for a stored child.
AssertFails(h, id) ==
    \E i \in DOMAIN h[id].children :
        h[h[id].children[i]].depth # h[id].depth - 1

\* The calls pending once the call at the head of the stack has run
\* compute_one_depth, which left the heap h.
Pending(h, call, rest) ==
    IF descends(call.depth)
    THEN Calls(h, call.node, call.depth) \o rest
    ELSE rest

\* One call of explore_from_node_to_depth, the one at the head of the
\* stack, up to its recursive calls, which are the next to run.
ExploreStep ==
    /\ pc = "exploring"
    /\ stack # <<>>
    /\ IF Head(stack).depth = 0
       THEN /\ heap' = heap
            /\ stack' = Tail(stack)
            /\ pc' = IF Tail(stack) = <<>> THEN "explored" ELSE "exploring"
       ELSE IF decisionsRaise(View(heap, Head(stack).node))
       THEN /\ heap' = [heap EXCEPT ![Head(stack).node].depth = @ + 1,
                                    ![Head(stack).node].runs = @ + 1]
            /\ stack' = stack
            /\ pc' = "type_error"
       ELSE \E one \in {compute_one_depth_at(heap, Head(stack).node)} :
              /\ heap' = [one EXCEPT ![Head(stack).node].depth =
                                        Head(stack).depth]
              /\ IF AssertFails(one, Head(stack).node)
                 THEN /\ stack' = stack
                      /\ pc' = "assert_failed"
                 ELSE /\ stack' = Pending(one, Head(stack), Tail(stack))
                      /\ pc' = IF Pending(one, Head(stack), Tail(stack))
                                     = <<>>
                               THEN "explored" ELSE "exploring"
    /\ UNCHANGED <<args, root, result, absorbing, order, earlier, procs,
                   frame, caller>>

\* complete_probas, leafs = root.get_unique_leafs(), on the objects.
CollectStep ==
    /\ pc = "explored"
    /\ result' = [probas |-> get_unique_leafs(TreeAt(heap, RootId)).probas,
                  leafs |-> get_unique_leafs(TreeAt(heap, RootId)).leafs]
    /\ pc' = IF get_unique_leafs(TreeAt(heap, RootId)).raised
             THEN "leafs_failed" ELSE "done"
    /\ UNCHANGED <<args, root, absorbing, order, earlier, aside>>

NextSteps == ExploreStep \/ CollectStep

\* A call is pending and the interpreter goes on: the stack or pc changes,
\* as every ExploreStep changes them (it pops the call it runs, or
\* raises); a call is always ready to run, for one its return.
Running ==
    /\ pc = "exploring"
    /\ stack # <<>>
    /\ \/ stack' = Tail(stack) /\ pc' = pc
       \/ stack' # stack
       \/ pc' # pc

\* The interpreter runs a call that is pending.
SpecSteps ==
    InitSteps /\ [][NextSteps]_vars /\ WF_<<stack, pc>>(Running)

----------------------------------------------------------------------------
(* Properties of the exploration on objects *)

\* The State objects of the tree in the heap h: the root and every State
\* that some State holds as a child.
TreeIds(h) ==
    {Len(InitialHeap(args))}
        \cup UNION {{h[id].children[i] : i \in DOMAIN h[id].children} :
                      id \in {x \in DOMAIN h : h[x].kind = "State"}}

\* The arrays that the States of the tree hold as S, Stilde, N, Ntilde.
Owned(h) ==
    UNION {{h[id].S, h[id].Stilde, h[id].N, h[id].Ntilde} : id \in TreeIds(h)}

\* No array is held twice, by two States or as two fields of one.
NoSharing(h) == Cardinality(Owned(h)) = 4 * Cardinality(TreeIds(h))

\* The node whose expansion is the next to run, if any.
NextExpanded ==
    IF pc = "exploring" /\ stack # <<>> /\ Head(stack).depth # 0
    THEN {Head(stack).node} ELSE {}

\* The children stored at the State object id hold the statistics of the
\* children that the expansion of the State's values gives.
ChildrenAsComputed(h, id, one) ==
    /\ Len(h[id].children) = Len(one.state.children)
    /\ \A i \in DOMAIN h[id].children :
          Stats(View(h, h[id].children[i])) = Stats(one.state.children[i])

C21_Step ==
    /\ \A a \in Owned(heap) : heap'[a] = heap[a]
    /\ NoSharing(heap')
    /\ \A n \in NextExpanded :
          pc' \in {"exploring", "explored"} =>
              ChildrenAsComputed(heap', n, compute_one_depth(View(heap, n)))

\* C21: no aliasing across nodes: no call of explore_from_node_to_depth
\* (with its compute_one_depth) and no leaf collection changes the S, N,
\* Stilde, Ntilde matrices of the node being expanded or of any State
\* stored so far in the tree (itself, its siblings, its ancestors); no two
\* States hold the same array; and the children an expansion stores hold
\* the statistics of the transitions, unchanged by the later rounds of the
\* same loop.
C21_NoAliasing == [][C21_Step]_vars

\* Leafs were collected from a tree of depth 2 with more than 17 States,
\* one of them with a count of 2, while the root's arrays are the zeros
\* main built.
C21_Witness ==
    /\ pc = "done"
    /\ args.depth = 2
    /\ Cardinality(TreeIds(heap)) > 17
    /\ \E n \in TreeIds(heap) : heap[heap[n].N].data[0][0] = 2
    /\ heap[heap[RootId].N].data = Zeros(2, 2)

\* The call player(j, state) on the live State n of the heap h left the
\* State object and its four arrays as they were, and a second call
\* returns the same candidates.
C25_Call(h, after, n, player, j) ==
    /\ \A id \in {n, h[n].S, h[n].Stilde, h[n].N, h[n].Ntilde} :
          after[id] = h[id]
    /\ Call(player, j, View(after, n)) = Call(player, j, View(h, n))

C25_At(live, n) ==
    \A i \in DOMAIN live[n].players :
        ~Raises(live[n].players[i], i - 1, View(live, n)) =>
            C25_Call(live, decide_at(live, n, live[n].players[i], i - 1), n,
                     live[n].players[i], i - 1)

\* C25: decision functions are pure: a call player(j, state) that returns,
\* made as all_deltas makes it on the live node (its depth already
\* increased), leaves the state's S, N, Stilde, Ntilde, t, depth, children
\* and probas unchanged, and a second call on the same state returns the
\* same candidate set.
C25_DecisionsArePure ==
    \A n \in NextExpanded :
        C25_At([heap EXCEPT ![n].depth = @ + 1, ![n].runs = @ + 1], n)

\* A greedy rule is about to be asked at a node one step from the root
\* where it computes a quotient for one arm and forces +oo for the other.
C25_Witness ==
    \E n \in NextExpanded :
        /\ heap[n].dist = 1
        /\ heap[n].K = 2
        /\ heap[n].players[1] = "Selfish_0Greedy_U"
        /\ heap[heap[n].N].data[0][0] = 1
        /\ heap[heap[n].N].data[0][1] = 0

\* compute_one_depth ran once on each State less than d steps from the
\* root and on no State d steps from it, which has no children and no
\* probas; no State is further away.
C28_ExactlyOnce(h, d) ==
    \A n \in TreeIds(h) :
        /\ h[n].dist <= d
        /\ h[n].dist < d => h[n].runs = 1 /\ h[n].children # <<>>
        /\ h[n].dist = d =>
              h[n].runs = 0 /\ h[n].children = <<>> /\ h[n].probas = <<>>

\* C28: explore_from_node_to_depth(d) terminates for every d >= 0; when it
\* returns, compute_one_depth has run exactly once on every node at
\* distance less than d from the root and on no node at distance d, whose
\* children and probas are empty; for d = 0 it changes nothing.
C28_ExploresToDepth ==
    /\ <>(pc # "exploring")
    /\ [](pc \in {"explored", "done"} => C28_ExactlyOnce(heap, args.depth))
    /\ [](args.depth = 0 => heap = InitialHeap(args))

\* The exploration to depth 2 has returned with States at distance 2.
C28_Witness ==
    /\ pc = "explored"
    /\ args.depth = 2
    /\ \E n \in TreeIds(heap) : heap[n].dist = 2

----------------------------------------------------------------------------
(* The simulation harness: Evaluator.start_one_env and delayed_play.        *)
(* The environment and the policy are objects of the heap; the classes MAB, *)
(* Result and the policies with memory are not part of the sources at hand  *)
(* and follow the contract the specification gives for them.                *)

\* Largest horizon of a playout.
MaxHorizon == 2

\* cfg['repetitions']: the playouts of one policy on one environment.
Repetitions == 2

\* nb_random_events = 4
nb_random_events == 4

\* An environment of two arms: env.arms lists them, env.nbArms counts them.
MAB(arms) == [kind |-> "MAB", arms |-> arms, nbArms |-> Len(arms)]

\* A policy object: of class BaseCentralizedPolicy, whose startGame and
\* getReward pass and whose choice raises, or of a class with memory (the
\* time, the pulls and the summed rewards of each arm).
Policy(class, nbArms, t, pulls, rewards) ==
    [kind |-> "policy", class |-> class, nbArms |-> nbArms, t |-> t,
     pulls |-> pulls, rewards |-> rewards]

\* policy.startGame(): resets the memory.
startGame(policy) ==
    IF policy.class = "BaseCentralizedPolicy" THEN policy
    ELSE [policy EXCEPT !.t = 0,
                        !.pulls = [k \in 1..policy.nbArms |-> 0],
                        !.rewards = [k \in 1..policy.nbArms |-> 0]]

\* arm k is at least as good as arm l for the memory: not pulled yet, or
\* of an empirical mean at least as large.
Preferred(policy, k, l) ==
    \/ policy.pulls[k + 1] = 0
    \/ /\ policy.pulls[l + 1] > 0
       /\ policy.rewards[k + 1] * policy.pulls[l + 1]
              >= policy.rewards[l + 1] * policy.pulls[k + 1]

\* policy.choice() of a policy with memory: the first of the best arms.
choice(policy) ==
    CHOOSE k \in 0..(policy.nbArms - 1) :
        /\ \A l \in 0..(policy.nbArms - 1) : Preferred(policy, k, l)
        /\ \A l \in 0..(k - 1) : ~Preferred(policy, l, k)

\* policy.getReward(arm, reward)
getReward(policy, arm, reward) ==
    IF policy.class = "BaseCentralizedPolicy" THEN policy
    ELSE [policy EXCEPT !.t = @ + 1,
                        !.pulls[arm + 1] = @ + 1,
                        !.rewards[arm + 1] = @ + reward]

\* Result(env.nbArms, horizon)
Result(nbArms, horizon) ==
    [choices |-> [t \in 1..horizon |-> 0],
     rewards |-> [t \in 1..horizon |-> 0],
     pulls |-> [k \in 1..nbArms |-> 0]]

\* result.store(t, choice, reward)
store(r, t, arm, reward) ==
    [r EXCEPT !.choices[t + 1] = arm,
              !.rewards[t + 1] = reward,
              !.pulls[arm + 1] = @ + 1]

\* t_events = [i * int(horizon / float(nb_random_events)) for i in
\* range(nb_random_events)], as a set
t_events(horizon) ==
    {i * (horizon \div nb_random_events) : i \in 0..(nb_random_events - 1)}

\* A variant of deepcopy that hands back the object it was given.
sameObject(h, id) == id

\* deepcopy(object): the identity of the copy, the next free one.
deepcopy(h, id) == Len(h) + 1

\* A variant of the loop test that runs one more round.
moreInclusive(t, horizon) == t <= horizon

\* for t in range(horizon): another round is to run
more(t, horizon) == t < horizon

\* What one call records: policy.startGame(), policy.choice() returning
\* arm, env.arms[arm].draw(t) returning reward, policy.getReward(arm,
\* reward), result.store(t, arm, reward); -1 where the call has no such
\* argument.
Logged(call, t, arm, reward) ==
    [call |-> call, t |-> t, arm |-> arm, reward |-> reward]

\* A repetition that start_one_env has not dispatched yet.
Idle ==
    [pc |-> "idle", env |-> 0, policy |-> 0, t |-> 0, choice |-> 0,
     reward |-> 0, result |-> Result(0, 0), log |-> <<>>, draws |-> <<>>]

\* The calls of start_one_env for one policy: the environment, the policy
\* (of the base class, or one with memory that has played before), the
\* horizon, the flags of the random events (none, the inversion alone, or
\* the shuffle followed by the inversion) and n_jobs (1: the repetitions
\* run in a loop; 2: joblib runs up to two at a time).
PlayInputs ==
    {a \in [env : {MAB(<<"a", "b">>)},
            policy : {Policy("BaseCentralizedPolicy", 2, 0, <<0, 0>>,
                             <<0, 0>>),
                      Policy("EmpiricalMeans", 2, 2, <<1, 1>>, <<0, 1>>)},
            horizon : 0..MaxHorizon,
            random_shuffle : BOOLEAN,
            random_invert : BOOLEAN,
            n_jobs : {1, 2}] :
        a.random_shuffle => a.random_invert}

InitPlay ==
    /\ args \in PlayInputs
    /\ heap = <<args.env, args.policy>>
    /\ procs = [r \in 1..Repetitions |-> Idle]
    /\ pc = "playing"
    /\ root = NoState
    /\ result = NoResult
    /\ absorbing = <<>>
    /\ order = "insertion"
    /\ earlier = NoEarlier
    /\ stack = <<>>
    /\ frame = NoFrame
    /\ caller = NoCaller

\* The repetitions that are running.
Active == {r \in DOMAIN procs : procs[r].pc \notin {"idle", "returned", "raised"}}

\* An exception of a repetition ends start_one_env.
Failed == \E r \in DOMAIN procs : procs[r].pc = "raised"

\* The heap with the copies of env and policy appended.
Copied(h) == h \o <<h[1], h[2]>>

\* delayed_play(env, policy, horizon) up to the loop: the deep copies,
\* policy.startGame() and the Result.  start_one_env dispatches the
\* repetitions in order, at most n_jobs at a time.
Start(r) ==
    /\ ~Failed
    /\ procs[r].pc = "idle"
    /\ \A q \in 1..(r - 1) : procs[q].pc # "idle"
    /\ Cardinality(Active) < args.n_jobs
    /\ \E e \in {deepcopy(heap, 1)} :
       \E p \in {deepcopy(Append(heap, heap[1]), 2)} :
          /\ heap' = [Copied(heap) EXCEPT ![p] = startGame(@)]
          /\ procs' = [procs EXCEPT ![r] =
                [Idle EXCEPT !.pc = "loop", !.env = e, !.policy = p,
                             !.result = Result(Copied(heap)[e].nbArms,
                                              args.horizon),
                             !.log = <<Logged("startGame", -1, -1, -1)>>]]
    /\ UNCHANGED <<args, pc, root, result, absorbing, order, earlier, stack,
                   frame, caller>>

\* What is left of an object no name refers to any more.
Freed == [kind |-> "freed"]

\* The heap once a local name of delayed_play has gone: the object dies
\* unless it is one start_one_env holds too.
Released(h, id) == IF id \in {1, 2} THEN h ELSE [h EXCEPT ![id] = Freed]

\* The head of the loop and choice = policy.choice(); after the last round
\* delayed_play returns its result and its copies go.
Choice(r) ==
    /\ ~Failed
    /\ procs[r].pc = "loop"
    /\ IF ~more(procs[r].t, args.horizon)
       THEN /\ procs' = [procs EXCEPT ![r].pc = "returned"]
            /\ heap' = Released(Released(heap, procs[r].env),
                                procs[r].policy)
       ELSE IF heap[procs[r].policy].class = "BaseCentralizedPolicy"
       THEN /\ procs' = [procs EXCEPT
                           ![r].pc = "raised",
                           ![r].log = Append(@, Logged("choice", -1, -1,
                                                       -1))]
            /\ heap' = heap
       ELSE /\ procs' = [procs EXCEPT
                           ![r].pc = "draw",
                           ![r].choice = choice(heap[procs[r].policy]),
                           ![r].log = Append(@, Logged("choice", -1,
                                                choice(heap[procs[r].policy]),
                                                -1))]
            /\ heap' = heap
    /\ UNCHANGED <<args, pc, root, result, absorbing, order, earlier, stack,
                   frame, caller>>

\* reward = env.arms[choice].draw(t): either outcome of the arm.
Draw(r) ==
    /\ ~Failed
    /\ procs[r].pc = "draw"
    /\ \E reward \in {0, 1} :
          procs' = [procs EXCEPT
                      ![r].pc = "getReward",
                      ![r].reward = reward,
                      ![r].draws = Append(@, reward),
                      ![r].log = Append(@, Logged("draw", procs[r].t,
                                                  procs[r].choice, reward))]
    /\ UNCHANGED <<args, pc, root, result, absorbing, order, earlier, stack,
                   frame, caller, heap>>

\* policy.getReward(choice, reward)
GetReward(r) ==
    /\ ~Failed
    /\ procs[r].pc = "getReward"
    /\ heap' = [heap EXCEPT ![procs[r].policy] =
                    getReward(@, procs[r].choice, procs[r].reward)]
    /\ procs' = [procs EXCEPT
                   ![r].pc = "store",
                   ![r].log = Append(@, Logged("getReward", -1,
                                               procs[r].choice,
                                               procs[r].reward))]
    /\ UNCHANGED <<args, pc, root, result, absorbing, order, earlier, stack,
                   frame, caller>>

\* The orders shuffle(env.arms) can leave the arms in.
Shuffled(arms) ==
    {[i \in DOMAIN arms |-> arms[f[i]]] :
        f \in {g \in [DOMAIN arms -> DOMAIN arms] :
                 \A i, k \in DOMAIN arms : g[i] = g[k] => i = k}}

\* env.arms = env.arms[::-1] if random_invert and t in t_events
Inverted(arms, t) ==
    IF args.random_invert /\ t \in t_events(args.horizon)
    THEN Reverse(arms) ELSE arms

\* result.store(t, choice, reward) and the random events that end the
\* round: the arms of env shuffled, then inverted.
Store(r) ==
    /\ ~Failed
    /\ procs[r].pc = "store"
    /\ \E arms \in IF args.random_shuffle
                     /\ procs[r].t \in t_events(args.horizon)
                  THEN Shuffled(heap[procs[r].env].arms)
                  ELSE {heap[procs[r].env].arms} :
          heap' = [heap EXCEPT ![procs[r].env].arms =
                                   Inverted(arms, procs[r].t)]
    /\ procs' = [procs EXCEPT
                   ![r].pc = "loop",
                   ![r].t = @ + 1,
                   ![r].result = store(@, procs[r].t, procs[r].choice,
                                       procs[r].reward),
                   ![r].log = Append(@, Logged("store", procs[r].t,
                                               procs[r].choice,
                                               procs[r].reward))]
    /\ UNCHANGED <<args, pc, root, result, absorbing, order, earlier, stack,
                   frame, caller>>

NextPlay ==
    \E r \in 1..Repetitions :
        Start(r) \/ Choice(r) \/ Draw(r) \/ GetReward(r) \/ Store(r)

SpecPlay == InitPlay /\ [][NextPlay]_vars

\* The result of one playout as delayed_play computes it from the policy
\* and the environment it was given and the rewards its arms drew.
RECURSIVE played(_, _, _, _)
played(policy, r, t, draws) ==
    IF t = Len(draws) THEN r
    ELSE played(getReward(policy, choice(policy), draws[t + 1]),
                store(r, t, choice(policy), draws[t + 1]), t + 1, draws)

playout(env, policy, horizon, draws) ==
    played(startGame(policy), Result(env.nbArms, horizon), 0, draws)

\* The k-th call of a playout is the one the protocol puts there: first
\* startGame(), then round after round choice(), draw(t), getReward and
\* store(t, ...), the last three with the arm choice() returned and the last
\* two with the reward draw(t) returned.
C27_InOrder(log, k) ==
    IF k = 1 THEN log[1].call = "startGame"
    ELSE LET t == (k - 2) \div 4
             phase == (k - 2) % 4
             chosen == log[2 + 4 * t].arm
         IN  CASE phase = 0 -> log[k].call = "choice"
               [] phase = 1 -> /\ log[k].call = "draw"
                               /\ log[k].t = t
                               /\ log[k].arm = chosen
               [] phase = 2 -> /\ log[k].call = "getReward"
                               /\ log[k].arm = chosen
                               /\ log[k].reward = log[k - 1].reward
               [] phase = 3 -> /\ log[k].call = "store"
                               /\ log[k].t = t
                               /\ log[k].arm = chosen
                               /\ log[k].reward = log[k - 2].reward

\* C27: every playout calls policy.startGame() once, before any choice(),
\* then round after round, for t = 0, 1, ..., choice(), draw(t) on the
\* chosen arm, getReward(arm, reward) and store(t, arm, reward) with the
\* same arm and reward; it never runs more than horizon rounds, and a
\* playout that returns has run exactly horizon of them.
C27_PlayoutProtocol ==
    pc = "playing" =>
        \A r \in DOMAIN procs :
            /\ procs[r].pc # "idle" => Len(procs[r].log) >= 1
            /\ \A k \in 1..Len(procs[r].log) : C27_InOrder(procs[r].log, k)
            /\ Len(procs[r].log) <= 1 + 4 * args.horizon
            /\ procs[r].pc = "returned"
                   => Len(procs[r].log) = 1 + 4 * args.horizon

\* A playout of two rounds has returned.
C27_Witness ==
    /\ pc = "playing"
    /\ args.horizon = 2
    /\ \E r \in DOMAIN procs :
          /\ procs[r].pc = "returned"
          /\ Len(procs[r].log) = 9
          /\ procs[r].log[9].call = "store"

\* C26: the env and the policy handed to delayed_play are never changed,
\* and the result a repetition returns is the one a playout on its own
\* gives for the rewards drawn, whatever ran before it or runs beside it.
C26_Isolation ==
    pc = "playing" =>
        /\ heap[1] = args.env
        /\ heap[2] = args.policy
        /\ \A r \in DOMAIN procs :
              procs[r].pc = "returned"
                  => procs[r].result = playout(args.env, args.policy,
                                               args.horizon, procs[r].draws)

\* One repetition has returned while another one runs beside it, on a
\* policy with a memory of its own and arms shuffled out of the order of
\* the env that was passed.
C26_Witness ==
    /\ pc = "playing"
    /\ args.n_jobs = 2
    /\ args.horizon = 2
    /\ \E r, q \in DOMAIN procs :
          /\ procs[r].pc = "returned"
          /\ procs[q].pc = "store"
          /\ procs[r].result.pulls # procs[q].result.pulls
          /\ heap[procs[q].policy] # args.policy
          /\ heap[procs[q].env].arms # args.env.arms

====
